---------------------------- MODULE Spec2Model ----------------------------
(***************************************************************************)
(* Model of src/test1_esp_working.cpp: an Arduino/ESP32 sketch that        *)
(* samples a binary radar pin into a circular buffer of windowSize         *)
(* entries, and, each time more than windowSize * sampleInterval           *)
(* milliseconds have passed since the last check, counts the transitions   *)
(* in the buffer, prints a verdict with the mapped CO2 reading and drives  *)
(* the LED.                                                                *)
(*                                                                         *)
(* One action, loop, models one whole call of loop().  The environment     *)
(* (radar pin, ADC, millisecond timer) is drawn with \E inside the action. *)
(***************************************************************************)
EXTENDS Integers, Sequences, FiniteSets, TLC

(***************************************************************************)
(* Program constants (lines 6-7).                                          *)
(***************************************************************************)
windowSize == 100
sampleInterval == 100

(***************************************************************************)
(* Bounds of the model: they limit the environment and the length of a     *)
(* run, never the program.                                                 *)
(***************************************************************************)
\* loop() is called at most MaxIter times in a behaviour
MaxIter == 204
\* the radar level toggles at most MaxFlips times in a behaviour, in
\* bursts: a burst is a run of consecutive reads that each see the level
\* toggled, and it starts at a read whose number is a multiple of
\* BurstStride; between bursts the level holds
MaxFlips == 13
BurstStride == 100
\* total number of milliseconds by which the timer may run ahead of the
\* ideal schedule (boot time, time between the two millis() calls, delay()
\* returning late)
MaxSlack == 1
\* how far outside 0 .. 4095 the readings of the conversion behaviours go
MaxOverRange == 600

(***************************************************************************)
(* unsigned long (32 bits on the ESP32): a value v is the pair <<hi, lo>>  *)
(* with v = hi * 2^16 + lo, both halves in 0 .. 2^16 - 1, so that the      *)
(* arithmetic is modulo 2^32 exactly as the hardware computes it.          *)
(***************************************************************************)
Half == 2^16

U32Val(a) == a[1] * Half + a[2]

U32Of(k) == <<(k \div Half) % Half, k % Half>>

\* a + d modulo 2^32, for 0 <= d < 2^16
U32Add(a, d) ==
    LET lo == a[2] + d
    IN  <<(a[1] + lo \div Half) % Half, lo % Half>>

\* a - b modulo 2^32
U32Sub(a, b) ==
    LET lo == a[2] - b[2]
        borrow == IF lo < 0 THEN 1 ELSE 0
    IN  <<(a[1] - b[1] - borrow) % Half, lo % Half>>

\* a > k for an int k >= 0 converted to unsigned long
U32Gt(a, k) ==
    \/ a[1] > k \div Half
    \/ a[1] = k \div Half /\ a[2] > k % Half

(***************************************************************************)
(* State.                                                                  *)
(***************************************************************************)
VARIABLES
    samples,      \* int samples[windowSize]                      (line 12)
    indexSample,  \* int indexSample                              (line 13)
    lastCheck,    \* static unsigned long lastCheck               (line 41)
    led,          \* level last written to ledPin                 (lines 47, 50)
    serial,       \* every character written to Serial so far     (lines 46-53)
    clock,        \* the value millis() returns at line 42 of the next call
    radar,        \* level of radarPin at the last digitalRead
    bursting,     \* the last digitalRead saw the level toggle
    flipsLeft,    \* toggles the radar level may still make
    slack,        \* milliseconds the timer may still run ahead
    n,            \* number of completed calls of loop()
    hist,         \* the values inserted so far, oldest first
    evalLog,      \* one record per evaluation so far, oldest first: the
                  \* number of the call of loop() that made it, the
                  \* millis() value of line 42, the one of line 43 and
                  \* the analogRead value of that call
    rawIn,        \* int co2Raw of line 38, in the behaviours that follow
                  \* one conversion (in those of loop() the reading
                  \* is kept in evalLog and this stays 0)
    ppmOut        \* int co2ppm of line 39 in the same behaviours: <<>>
                  \* before the conversion, <<value>> after it

vars == <<samples, indexSample, lastCheck, led, serial, clock, radar,
          bursting, flipsLeft, slack, n, hist, evalLog, rawIn, ppmOut>>

Slots == 0 .. windowSize - 1

\* analogRead(co2Pin) on the 12-bit ADC (0 .. 4095): the readings the model
\* draws
Co2Inputs == {0, 2048}

(***************************************************************************)
(* setup(), lines 15-21, and the initialisers of lines 13 and 41.          *)
(***************************************************************************)
\* a fill loop that stops one entry short: the last entry keeps the 0 of a
\* zero-initialised global
setupSamplesShort == [i \in Slots |-> IF i < windowSize - 1 THEN 1 ELSE 0]

setupSamples == [i \in Slots |-> 1]

InitProgram ==
    /\ samples = setupSamples
    /\ indexSample = 0
    /\ lastCheck = U32Of(0)
    /\ led = "LOW"
    /\ serial = ""
    /\ n = 0
    /\ hist = <<>>
    /\ evalLog = <<>>

\* the pin is low before the first read (a burst at read 0 makes the first
\* reading 1, no burst makes it 0)
InitRadar ==
    /\ radar = 0
    /\ bursting = FALSE
    /\ flipsLeft = MaxFlips

\* the first call of loop() reads millis() = boot, boot <= MaxSlack
Init ==
    /\ InitProgram
    /\ InitRadar
    /\ \E boot \in 0 .. MaxSlack :
          /\ clock = U32Of(boot)
          /\ slack = MaxSlack - boot
    /\ rawIn = 0
    /\ ppmOut = <<>>

(***************************************************************************)
(* checkBreathing(), lines 23-31.                                          *)
(***************************************************************************)
\* (mutant of scanStep: line 28, prev = samples[i], left out)
scanStepStalePrev(s, st, i) ==
    <<st[1], IF s[i] # st[1] THEN st[2] + 1 ELSE st[2]>>

\* lines 27-28, the body of the for loop at index i: st is <<prev, transitions>>
scanStep(s, st, i) ==
    <<s[i], IF s[i] # st[1] THEN st[2] + 1 ELSE st[2]>>

\* for (i = lo; i < hi; i++) scanStep, started in st: the iterations
\* lo .. hi - 1 in increasing order.  The range is run as two halves, one
\* after the other: half, the state the first half ends in, is the one
\* element of a singleton set, which makes TLC finish the first half (once)
\* before it enters the second and keeps the evaluation shallow.
RECURSIVE scanFor(_, _, _, _)
scanFor(s, st, lo, hi) ==
    IF lo >= hi THEN st
    ELSE IF hi = lo + 1 THEN scanStep(s, st, lo)
    ELSE LET mid == (lo + hi) \div 2
         IN  CHOOSE r \in {scanFor(s, half, mid, hi) :
                              half \in {scanFor(s, st, lo, mid)}} : TRUE

\* (mutant of countTransitions: a circular scan, from i = 0 with prev the
\* last entry)
countTransitionsCircular(s, size) == scanFor(s, <<s[size - 1], 0>>, 0, size)[2]

\* (mutant of countTransitions: the loop of line 26 started at i = 2)
countTransitionsFromTwo(s, size) == scanFor(s, <<s[0], 0>>, 2, size)[2]

\* lines 24-29 on an array s of size entries: prev = s[0], transitions = 0,
\* then the loop from 1 to size - 1
countTransitions(s, size) == scanFor(s, <<s[0], 0>>, 1, size)[2]

\* (mutant of isPresent: the upper bound taken exclusive)
isPresentExclusive(transitions) == transitions >= 3 /\ transitions < 10

\* line 30
isPresent(transitions) == transitions >= 3 /\ transitions <= 10

checkBreathing(s) == isPresent(countTransitions(s, windowSize))

(***************************************************************************)
(* loop(), lines 33-57.                                                    *)
(***************************************************************************)
\* (mutant of insertSample: lines 35 and 36 swapped, the store made at the
\* cursor already advanced)
insertSampleAfterAdvance(s, i, v) == [s EXCEPT ![(i + 1) % windowSize] = v]

\* line 35
insertSample(s, i, v) == [s EXCEPT ![i] = v]

\* (mutants of advance: the wrap one slot early; no wrap at all)
advanceWrapEarly(i) == (i + 1) % (windowSize - 1)

advanceNoWrap(i) == i + 1

\* line 36
advance(i) == (i + 1) % windowSize

\* map() of the Arduino core, called at line 39: long arithmetic,
\* (x - in_min) * (out_max - out_min) / (in_max - in_min) + out_min, with
\* C division (truncating toward zero)
CDiv(a, b) ==
    IF (a >= 0) = (b > 0) THEN a \div b
    ELSE IF b > 0 THEN -((-a) \div b) ELSE -(a \div (-b))

map(x, in_min, in_max, out_min, out_max) ==
    CDiv((x - in_min) * (out_max - out_min), in_max - in_min) + out_min

\* line 39
\* (mutant of mapCo2: the input range taken as 0 .. 4096)
mapCo2Pow2(raw) == map(raw, 0, 4096, 400, 2000)

mapCo2(raw) == map(raw, 0, 4095, 400, 2000)

\* (mutant of evaluationDue: the deadline form, millis() > lastCheck +
\* windowSize * sampleInterval, the sum in unsigned long)
evaluationDueDeadline(now, last) ==
    LET t == U32Add(last, windowSize * sampleInterval)
    IN  now[1] > t[1] \/ (now[1] = t[1] /\ now[2] > t[2])

\* (mutant of evaluationDue: the period multiplied by 1000, as for a timer
\* in microseconds)
evaluationDueMicros(now, last) ==
    U32Gt(U32Sub(now, last), windowSize * sampleInterval * 1000)

\* (mutant of evaluationDue: the period taken as windowSize milliseconds)
evaluationDueShort(now, last) == U32Gt(U32Sub(now, last), windowSize)

\* (mutant of evaluationDue: >= for >)
evaluationDueAtTie(now, last) ==
    LET d == U32Sub(now, last)
    IN  U32Gt(d, windowSize * sampleInterval)
            \/ d = U32Of(windowSize * sampleInterval)

\* line 42: millis() - lastCheck > windowSize * sampleInterval, the
\* subtraction in unsigned long
evaluationDue(now, last) ==
    U32Gt(U32Sub(now, last), windowSize * sampleInterval)

\* line 43: lastCheck = millis(), a second reading of the timer
stampOf(now, now2) == now2

\* (mutant of scannedSamples: the check made before the store of line 35)
scannedBeforeInsert(before, after) == before

\* line 45: checkBreathing() reads the array as it is after line 35
scannedSamples(before, after) == after

\* (mutant of samplesAfterCheck: the window cleared back to the values of
\* setup() once it has been judged)
samplesClearedAfterCheck(s) == setupSamples

\* lines 23-31: checkBreathing() only reads samples; the array it leaves is
\* the one it was given
samplesAfterCheck(s) == s

\* lines 45-51
verdictToken(present) == IF present THEN "HUMAN," ELSE "NO HUMAN,"

\* (mutant of ledLevel: the two levels exchanged)
ledLevelInverted(present) == IF present THEN "LOW" ELSE "HIGH"

ledLevel(present) == IF present THEN "HIGH" ELSE "LOW"

\* Serial.println(int): the decimal digits, then the line terminator the
\* Arduino core writes (carriage return, line feed)
lineEnd == "\r\n"

println(v) == ToString(v) \o lineEnd

\* lines 45-53: the characters one evaluation writes
verdictLine(present, co2ppm) == verdictToken(present) \o println(co2ppm)

\* (mutant of delay: twice the interval)
delayTwice(t) == U32Add(t, 2 * sampleInterval)

\* line 56: the timer value at which delay(sampleInterval), entered at
\* timer value t, returns at the earliest
delay(t) == U32Add(t, sampleInterval)

\* the levels digitalRead(radarPin) can return at this call
RadarReadings ==
    {radar} \cup
    (IF flipsLeft > 0 /\ (bursting \/ n % BurstStride = 0)
     THEN {1 - radar} ELSE {})

\* one call of loop(): radarVal is the digitalRead of line 34, co2Raw the
\* analogRead of line 38, now the millis() of line 42, now2 the millis() of
\* line 43 (the timer may have ticked in between: skew), late the time by
\* which delay() of line 56 overruns
loop ==
    /\ n < MaxIter
    /\ \E radarVal \in RadarReadings, co2Raw \in Co2Inputs,
          skew \in 0 .. (IF slack > 0 THEN 1 ELSE 0) :
       LET after == insertSample(samples, indexSample, radarVal)
           co2ppm == mapCo2(co2Raw)
           now == clock
           due == evaluationDue(now, lastCheck)
           now2 == U32Add(now, skew)
           present == checkBreathing(scannedSamples(samples, after))
           spent == IF due THEN skew ELSE 0
       IN  /\ samples' = IF due THEN samplesAfterCheck(after) ELSE after
           /\ indexSample' = advance(indexSample)
           /\ hist' = Append(hist, radarVal)
           /\ bursting' = (radarVal # radar)
           /\ flipsLeft' = IF radarVal # radar THEN flipsLeft - 1 ELSE flipsLeft
           /\ radar' = radarVal
           /\ n' = n + 1
           /\ IF due
              THEN /\ lastCheck' = stampOf(now, now2)
                   /\ led' = ledLevel(present)
                   /\ serial' = serial \o verdictLine(present, co2ppm)
                   /\ evalLog' = Append(evalLog,
                          [call |-> n + 1, now |-> now, stamp |-> now2,
                           raw |-> co2Raw])
              ELSE UNCHANGED <<lastCheck, led, serial, evalLog>>
           \* line 56: delay(sampleInterval) returns after at least
           \* sampleInterval milliseconds
           /\ \E late \in 0 .. (IF slack - spent > 0 THEN 1 ELSE 0) :
                 /\ clock' = U32Add(delay(IF due THEN now2 ELSE now), late)
                 /\ slack' = slack - spent - late
           \* no conversion is followed in these behaviours
           /\ UNCHANGED <<rawIn, ppmOut>>

Next == loop

\* number of evaluations so far
evals == Len(evalLog)

\* the last completed call of loop() made an evaluation
evaluated == evals > 0 /\ evalLog[evals].call = n

Spec == Init /\ [][Next]_vars

(***************************************************************************)
(* Ideal timing: the timer advances by exactly sampleInterval per call of  *)
(* loop() (both millis() calls of one call return the same value, delay()  *)
(* returns on time); only the value at the first call is free.             *)
(***************************************************************************)
InitIdeal ==
    /\ InitProgram
    /\ InitRadar
    /\ \E boot \in 0 .. MaxSlack : clock = U32Of(boot)
    /\ slack = 0
    /\ rawIn = 0
    /\ ppmOut = <<>>

SpecIdeal == InitIdeal /\ [][Next]_vars

(***************************************************************************)
(* Lines 38-39 alone: one conversion of one reading.  The reading ranges   *)
(* over the 12 bits of the ADC and MaxOverRange values on either side, so  *)
(* that the formula is also followed outside 0 .. 4095.                    *)
(***************************************************************************)
RawRange == (0 - MaxOverRange) .. (4095 + MaxOverRange)

InitMap ==
    /\ InitProgram
    /\ InitRadar
    /\ clock = U32Of(0)
    /\ slack = 0
    /\ rawIn \in RawRange
    /\ ppmOut = <<>>

readCo2 ==
    /\ ppmOut = <<>>
    /\ ppmOut' = <<mapCo2(rawIn)>>
    /\ UNCHANGED <<samples, indexSample, lastCheck, led, serial, clock,
                   radar, bursting, flipsLeft, slack, n, hist, evalLog,
                   rawIn>>

NextMap == readCo2

SpecMap == InitMap /\ [][NextMap]_vars

(***************************************************************************)
(* The program some 49.7 days after start, when millis() is about to wrap  *)
(* from 2^32 - 1 to 0.  The state is one the program is in right after an  *)
(* evaluating call: the radar has been low for the last windowSize calls   *)
(* (array all 0, verdict NO HUMAN, LED low) and stays low, lastCheck is    *)
(* lead milliseconds before the wraparound and the next call reads the     *)
(* timer sampleInterval later.  The history variables (n, hist, evalLog,   *)
(* serial) start afresh: they count from this state on.                    *)
(***************************************************************************)
WrapLeads == {1, sampleInterval, 5000, 10000, 10050, 10100, 10200, 20300}

InitWrap ==
    /\ samples = [i \in Slots |-> 0]
    /\ indexSample = 0
    /\ led = "LOW"
    /\ serial = ""
    /\ radar = 0
    /\ bursting = FALSE
    /\ flipsLeft = 0
    /\ slack = MaxSlack
    /\ n = 0
    /\ hist = <<>>
    /\ evalLog = <<>>
    /\ rawIn = 0
    /\ ppmOut = <<>>
    /\ \E lead \in WrapLeads :
          /\ lastCheck = U32Sub(U32Of(0), U32Of(lead))
          /\ clock = U32Add(lastCheck, sampleInterval)

SpecWrap == InitWrap /\ [][Next]_vars

\* the Arduino runtime calls loop() again whenever it returns, and delay()
\* of line 56 returns: a call of loop() that can be made is made
SpecLive == SpecWrap /\ WF_vars(loop)

(***************************************************************************)
(* Vocabulary of the properties.                                           *)
(***************************************************************************)
\* number of positions 1 .. size - 1 of s whose value differs from the one
\* just before
Flips(s, size) == Cardinality({i \in 1 .. size - 1 : s[i] # s[i - 1]})

\* the slot written by the last completed call of loop()
lastSlot == (indexSample + windowSize - 1) % windowSize

\* milliseconds from lastCheck to the timer value the next call reads at
\* line 42 (the timer does not wrap in these behaviours)
elapsed == U32Val(clock) - U32Val(lastCheck)

\* the array of 8 readings of the transition-count example
exampleBuffer == [i \in 0 .. 7 |-> <<1, 1, 0, 0, 1, 1, 0, 1>>[i + 1]]

\* the readings of the end-to-end scenario, oldest first: 1, 0, 1, 0, 1, 0,
\* 1, 0 and then 1 up to windowSize readings
endToEndInputs == [k \in 1 .. windowSize |-> IF k <= 8 THEN k % 2 ELSE 1]

\* the last windowSize readings, oldest first (once windowSize readings
\* have been inserted), indexed like the array
chronological == [k \in Slots |-> hist[n - windowSize + 1 + k]]

\* 1 if the newest reading (slot before the cursor) differs from the oldest
\* (slot at the cursor), else 0
seamPair == IF samples[lastSlot] # samples[indexSample] THEN 1 ELSE 0

\* 1 if the last slot differs from slot 0, else 0
wrapPair == IF samples[windowSize - 1] # samples[0] THEN 1 ELSE 0

\* milliseconds from the wraparound of the timer to the instant the timer
\* shows t, negative before the wraparound (in the behaviours of SpecWrap,
\* which stay within 2^31 milliseconds of it)
sinceWrap(t) ==
    IF t[1] >= Half \div 2 THEN (t[1] - Half) * Half + t[2]
                            ELSE t[1] * Half + t[2]

\* what C1 says of one call of loop()
C1_GateStep ==
    /\ windowSize * sampleInterval = 10000
    /\ elapsed > 10000 =>
          /\ evals' = evals + 1
          /\ serial' # serial
          /\ led' \in {"HIGH", "LOW"}
          /\ lastCheck' # lastCheck
    /\ elapsed <= 10000 => UNCHANGED <<evalLog, serial, led, lastCheck>>
    /\ ~evaluationDue(U32Of(11000), U32Of(1000))
    /\ evaluationDue(U32Of(11001), U32Of(1000))

(***************************************************************************)
(* C1: in every call of loop() an evaluation (a verdict written, the LED   *)
(* driven, lastCheck stamped) takes place if and only if now - lastCheck   *)
(* is strictly greater than windowSize * sampleInterval = 10000: at a      *)
(* difference of exactly 10000 (now = 11000, last = 1000) there is none,   *)
(* at 10001 (now = 11001) there is one.                                    *)
(***************************************************************************)
C1_StrictGate == [][n' = n + 1 => C1_GateStep]_vars

\* the call that read 10000 made no evaluation, the next one (10100) did
C1_TieThenEvaluated ==
    /\ evaluated
    /\ evals = 1
    /\ n = 102
    /\ U32Val(evalLog[1].now) = 10100

(***************************************************************************)
(* C2: insertion overwrite law.  The j-th inserted value (from 0) is in    *)
(* slot j mod windowSize until insertion j + windowSize overwrites it;     *)
(* slots not yet written hold the default 1; from windowSize insertions on *)
(* no default is left and the array holds exactly the last windowSize      *)
(* inserted values.                                                        *)
(***************************************************************************)
C2_OverwriteLaw ==
    /\ Len(hist) = n
    /\ \A j \in 0 .. n - 1 :
          j + windowSize >= n => samples[j % windowSize] = hist[j + 1]
    /\ n < windowSize => \A i \in n .. windowSize - 1 : samples[i] = 1
    /\ n >= windowSize =>
          {j % windowSize : j \in n - windowSize .. n - 1} = Slots

\* slot 0 first received a 1 (insertion 0), later a 0 (insertion windowSize)
C2_Overwritten ==
    /\ n > windowSize
    /\ hist[1] = 1
    /\ hist[windowSize + 1] = 0
    /\ samples[0] = 0

(***************************************************************************)
(* C3: whatever the array holds, the count computed by the scan of lines   *)
(* 24-29 is the number of positions 1 .. windowSize - 1, in storage order  *)
(* from physical index 0, that differ from the position before; it is 4    *)
(* for [1,1,0,0,1,1,0,1] and 0 for an array of equal entries.              *)
(***************************************************************************)
C3_TransitionCount ==
    /\ countTransitions(samples, windowSize) = Flips(samples, windowSize)
    /\ countTransitions(exampleBuffer, 8) = 4
    /\ (\A i \in Slots : samples[i] = samples[0]) =>
          countTransitions(samples, windowSize) = 0

\* a full array with transitions on both sides of the cursor
C3_Counted ==
    /\ n > windowSize
    /\ Flips(samples, windowSize) = 5
    /\ samples[0] # samples[1]
    /\ samples[2] # samples[3]

(***************************************************************************)
(* C4: the verdict of an evaluation is "present" if and only if the        *)
(* transition count of the array at that moment is at least 3 and at most  *)
(* 10: 2 and 11 give "not present", 3 and 10 give "present".               *)
(***************************************************************************)
C4_Thresholds ==
    /\ evaluated =>
          LET c == countTransitions(samples, windowSize)
          IN  (led = "HIGH") <=> (3 <= c /\ c <= 10)
    /\ ~isPresent(2)
    /\ isPresent(3)
    /\ isPresent(10)
    /\ ~isPresent(11)

\* an evaluation on an array with exactly 10 transitions
C4_AtUpperBound ==
    /\ evaluated
    /\ Flips(samples, windowSize) = 10
    /\ led = "HIGH"

(***************************************************************************)
(* C5: in one call of loop() the store of the sample comes before the      *)
(* evaluation: whenever a call evaluates, the array it scans holds the     *)
(* sample read in that call, in the slot just before the advanced cursor.  *)
(***************************************************************************)
C5_InsertBeforeEvaluation ==
    evaluated =>
       /\ samples[lastSlot] = radar
       /\ hist[n] = radar
       /\ led = ledLevel(checkBreathing(samples))

\* an evaluation whose verdict differs from the one the array would have
\* given before the store of that call
C5_SampleDecides ==
    /\ evaluated
    /\ n > windowSize
    /\ checkBreathing([samples EXCEPT ![lastSlot] = hist[n - windowSize]])
          # checkBreathing(samples)

\* what C6 says of one evaluating call of loop()
C6_VerdictStep ==
    LET raw == evalLog'[evals'].raw
        ppm == 400 + (raw * 1600) \div 4095
    IN  \E tok \in {"HUMAN,", "NO HUMAN,"} :
           /\ serial' = serial \o tok \o ToString(ppm) \o lineEnd
           /\ (tok = "HUMAN,") <=> (led' = "HIGH")
           /\ (tok = "NO HUMAN,") <=> (led' = "LOW")
           /\ (tok = "HUMAN,") <=> checkBreathing(samples')

(***************************************************************************)
(* C6: every evaluation writes exactly one line to Serial, the token       *)
(* "HUMAN," or "NO HUMAN," followed by the mapped ppm value of the ADC     *)
(* reading taken in the same call, and drives the LED in agreement with    *)
(* the token: HIGH exactly with "HUMAN," (presence detected), LOW exactly  *)
(* with "NO HUMAN,".                                                       *)
(***************************************************************************)
C6_VerdictLine == [][evals' = evals + 1 => C6_VerdictStep]_vars

\* a first evaluation that found presence, with the ADC at half scale
C6_HumanLine ==
    /\ evaluated
    /\ led = "HIGH"
    /\ evalLog[1].raw = 2048
    /\ serial = "HUMAN,1200" \o lineEnd

\* what C7 says of one call of loop() that is not due
C7_WaitingStep ==
    /\ led' = led
    /\ serial' = serial
    /\ lastCheck' = lastCheck
    /\ \A i \in Slots \ {indexSample} : samples'[i] = samples[i]
    /\ samples'[indexSample] = radar'
    /\ indexSample' = (indexSample + 1) % windowSize

(***************************************************************************)
(* C7: a call of loop() in which the evaluation is not due leaves the LED, *)
(* the Serial output and lastCheck as they are; of the program's state     *)
(* only the slot at the cursor and the cursor change.                      *)
(***************************************************************************)
C7_WaitingFrame == [][n' = n + 1 /\ elapsed <= 10000 => C7_WaitingStep]_vars

\* a call that was not due, after an evaluation that had lit the LED, and
\* that stored a reading different from the one the slot held
C7_WaitedAfterHuman ==
    /\ ~evaluated
    /\ evals = 1
    /\ led = "HIGH"
    /\ n > windowSize
    /\ samples[lastSlot] # hist[n - windowSize]

(***************************************************************************)
(* C8 as stated: with the timer advancing by sampleInterval per call,      *)
(* consecutive evaluations are exactly windowSize * sampleInterval         *)
(* milliseconds, that is windowSize calls, apart.                          *)
(***************************************************************************)
C8_PeriodAsStated ==
    \A k \in 1 .. evals - 1 :
       /\ U32Val(evalLog[k + 1].now) - U32Val(evalLog[k].now)
             = windowSize * sampleInterval
       /\ evalLog[k + 1].call - evalLog[k].call = windowSize

(***************************************************************************)
(* C8 amended: with the timer advancing by sampleInterval per call,        *)
(* consecutive evaluations are exactly (windowSize + 1) * sampleInterval   *)
(* = 10100 milliseconds, that is windowSize + 1 calls, apart: the call     *)
(* that reads a difference of exactly 10000 is not due.                    *)
(***************************************************************************)
C8_PeriodAmended ==
    \A k \in 1 .. evals - 1 :
       /\ U32Val(evalLog[k + 1].now) - U32Val(evalLog[k].now) = 10100
       /\ (windowSize + 1) * sampleInterval = 10100
       /\ evalLog[k + 1].call - evalLog[k].call = windowSize + 1

\* two evaluations have been made
C8_TwoEvaluations == evals = 2 /\ evaluated

\* what C9 says of one call of loop()
C9_StampStep ==
    /\ evals' = evals + 1 => lastCheck' = clock
    /\ evals' = evals => lastCheck' = lastCheck
    /\ U32Val(lastCheck') >= U32Val(lastCheck)
    /\ evals' = evals + 1 =>
          /\ U32Val(lastCheck') - U32Val(lastCheck) > windowSize * sampleInterval
          /\ ~(U32Val(clock') - U32Val(lastCheck') > windowSize * sampleInterval)

(***************************************************************************)
(* C9 as stated: lastCheck starts at 0, is set on every evaluation to now, *)
(* the timer value used in the due check, and changes at no other time; it *)
(* never decreases, the stamps of two consecutive evaluations differ by    *)
(* more than the period, and right after an evaluation the check is not    *)
(* due again.                                                              *)
(***************************************************************************)
C9_StampIsNow == (lastCheck = U32Of(0)) /\ [][C9_StampStep]_vars

(***************************************************************************)
(* C10: the cursor is always in 0 .. windowSize - 1, the array always has  *)
(* exactly windowSize entries, each 0 or 1, and every insertion advances   *)
(* the cursor by 1 modulo windowSize: after n insertions it is             *)
(* n mod windowSize.                                                       *)
(***************************************************************************)
C10_CursorAndShape ==
    /\ indexSample \in 0 .. windowSize - 1
    /\ DOMAIN samples = 0 .. windowSize - 1
    /\ Cardinality(DOMAIN samples) = windowSize
    /\ \A i \in DOMAIN samples : samples[i] \in {0, 1}
    /\ indexSample = n % windowSize

\* the cursor back at 0 for the second time
C10_WrappedTwice == n = 2 * windowSize /\ indexSample = 0

(***************************************************************************)
(* C11: right after setup(), before the first call of loop(), every entry  *)
(* of the array is 1, the cursor is 0 and lastCheck is 0; the scan of that *)
(* array counts 0 transitions and its verdict is "not present"             *)
(* ("NO HUMAN").                                                           *)
(***************************************************************************)
C11_AfterSetup ==
    n = 0 =>
       /\ \A i \in Slots : samples[i] = 1
       /\ indexSample = 0
       /\ lastCheck = <<0, 0>>
       /\ countTransitions(samples, windowSize) = 0
       /\ ~checkBreathing(samples)
       /\ verdictToken(checkBreathing(samples)) = "NO HUMAN,"

\* the state setup() leaves: nothing inserted, nothing written
C11_FreshlyStarted ==
    /\ n = 0
    /\ hist = <<>>
    /\ serial = ""
    /\ Flips(samples, windowSize) = 0

(***************************************************************************)
(* C12: co2ppm = 400 + co2Raw * 1600 / 4095 with the quotient truncated    *)
(* toward zero, for every reading: 0 gives 400, 4095 gives 2000 and 2048   *)
(* gives 1200; on 0 .. 4095 the result is in 400 .. 2000 and does not      *)
(* decrease when the reading grows; outside 0 .. 4095 the same formula is  *)
(* followed and nothing is clamped (results below 400 and above 2000).     *)
(***************************************************************************)
C12_Co2Mapping ==
    /\ mapCo2(0) = 400
    /\ mapCo2(4095) = 2000
    /\ mapCo2(2048) = 1200
    /\ ppmOut # <<>> =>
          LET q == ppmOut[1] - 400
              p == rawIn * 1600
          IN  /\ p >= 0 => 4095 * q <= p /\ p < 4095 * (q + 1)
              /\ p < 0 => 4095 * q >= p /\ p > 4095 * (q - 1)
              /\ rawIn \in 0 .. 4095 =>
                    /\ ppmOut[1] \in 400 .. 2000
                    /\ rawIn < 4095 => mapCo2(rawIn + 1) >= ppmOut[1]
              /\ rawIn > 4097 => ppmOut[1] > 2000
              /\ rawIn < 0 - 2 => ppmOut[1] < 400

\* the mid-scale reading converted
C12_MidScale == rawIn = 2048 /\ ppmOut = <<1200>>

(***************************************************************************)
(* C13: from the array of setup(), once the windowSize readings 1, 0, 1,   *)
(* 0, 1, 0, 1, 0, 1, 1, ..., 1 have been inserted, the scan counts 8       *)
(* transitions, the number of changes in the inserted sequence (7 within   *)
(* the alternating first 8 readings and 1 back to the held 1), and the     *)
(* verdict on that array is "present"; the evaluation the program makes    *)
(* next, the reading still held at 1, reports HUMAN.                       *)
(***************************************************************************)
C13_EndToEnd ==
    /\ Cardinality({k \in 2 .. 8 : endToEndInputs[k] # endToEndInputs[k - 1]}) = 7
    /\ endToEndInputs[8] = 0 /\ endToEndInputs[9] = 1
    /\ (n = windowSize /\ hist = endToEndInputs) =>
          /\ samples = [i \in Slots |-> endToEndInputs[i + 1]]
          /\ countTransitions(samples, windowSize) = 8
          /\ isPresent(countTransitions(samples, windowSize))
          /\ checkBreathing(samples)
    /\ (/\ evaluated
        /\ evals = 1
        /\ SubSeq(hist, 1, windowSize) = endToEndInputs
        /\ \A k \in windowSize + 1 .. n : hist[k] = 1) =>
          /\ led = "HIGH"
          /\ SubSeq(serial, 1, 6) = "HUMAN,"

\* the scenario inserted and then evaluated by the program
C13_ScenarioEvaluated ==
    /\ evaluated
    /\ evals = 1
    /\ n = windowSize + 1
    /\ SubSeq(hist, 1, windowSize) = endToEndInputs
    /\ hist[n] = 1
    /\ led = "HIGH"

\* what C15 says of one call of loop()
C15_FrameStep ==
    /\ DOMAIN samples' = DOMAIN samples
    /\ \A i \in Slots : i # indexSample => samples'[i] = samples[i]
    /\ samples'[indexSample] = hist'[n']
    /\ indexSample' = (indexSample + 1) % windowSize
    /\ evals' = evals + 1 =>
          /\ samples' = [samples EXCEPT ![indexSample] = hist'[n']]
          /\ indexSample' = IF indexSample = windowSize - 1
                               THEN 0 ELSE indexSample + 1

(***************************************************************************)
(* C15: the insertion of a call of loop() changes no slot but the one at   *)
(* the cursor as it was before the call, which receives the reading; an    *)
(* evaluation changes neither the array nor the cursor: after a call that  *)
(* evaluates, the array differs from the one before the call in that one   *)
(* slot only and the cursor has advanced by exactly one.                   *)
(***************************************************************************)
C15_Frame == [][n' = n + 1 => C15_FrameStep]_vars

\* an evaluating call whose reading replaced a different value
C15_EvaluatedAfterChange ==
    /\ evaluated
    /\ n > windowSize
    /\ hist[n] # hist[n - windowSize]
    /\ samples[lastSlot] = hist[n]

(***************************************************************************)
(* C16: once windowSize readings have been inserted, the count of the scan *)
(* (storage order from slot 0) and the number of changes in the same       *)
(* readings taken oldest to newest differ by at most 1 and are equal       *)
(* whenever the cursor is 0: the scan counts the pair (newest, oldest) on  *)
(* either side of the cursor, which the chronological count does not, and  *)
(* leaves out the pair (last slot, slot 0), which the chronological count  *)
(* includes unless the cursor is 0.                                        *)
(***************************************************************************)
C16_StorageVsChronological ==
    n >= windowSize =>
       LET sc == countTransitions(samples, windowSize)
           cc == Flips(chronological, windowSize)
       IN  /\ sc - cc \in {0 - 1, 0, 1}
           /\ indexSample = 0 => sc = cc /\ samples = chronological
           /\ indexSample # 0 => sc = cc + seamPair - wrapPair

\* a full array whose scan counts one transition more than its readings
\* have in chronological order
C16_SeamCounted ==
    /\ n > windowSize
    /\ indexSample # 0
    /\ seamPair = 1
    /\ wrapPair = 0
    /\ Flips(samples, windowSize) = Flips(chronological, windowSize) + 1

(***************************************************************************)
(* C17: with the timer at 0 (or within the first milliseconds) at the      *)
(* first call and advancing by exactly sampleInterval per call, at least   *)
(* windowSize insertions come before the first evaluation and between two  *)
(* consecutive evaluations: every slot of the array an evaluation scans    *)
(* holds a reading inserted since the previous evaluation, none the 1 of   *)
(* setup().                                                                *)
(***************************************************************************)
C17_FreshWindow ==
    /\ \A k \in 1 .. evals :
          evalLog[k].call - (IF k = 1 THEN 0 ELSE evalLog[k - 1].call)
             >= windowSize
    /\ evaluated =>
          LET before == IF evals = 1 THEN 0 ELSE evalLog[evals - 1].call
          IN  \A i \in Slots :
                 \E j \in before + 1 .. n :
                    (j - 1) % windowSize = i /\ samples[i] = hist[j]

\* timer at 0 at the first call: evaluations in calls 102 and 203
C17_SecondFreshWindow ==
    /\ evaluated
    /\ evals = 2
    /\ evalLog[1].now = U32Of((windowSize + 1) * sampleInterval)
    /\ evalLog[1].call = windowSize + 2
    /\ evalLog[2].call = 2 * windowSize + 3

\* what C18 says of one call of loop()
C18_WrapStep ==
    LET really == sinceWrap(clock) - sinceWrap(lastCheck)
    IN  /\ really > windowSize * sampleInterval =>
              /\ evals' = evals + 1
              /\ serial' # serial
              /\ lastCheck' # lastCheck
        /\ really <= windowSize * sampleInterval =>
              UNCHANGED <<evalLog, serial, led, lastCheck>>
        /\ really > 0

(***************************************************************************)
(* C18: the due check subtracts in unsigned 32-bit arithmetic, so across   *)
(* the wraparound of millis() from 2^32 - 1 to 0 a call of loop()          *)
(* evaluates exactly when more than windowSize * sampleInterval = 10000    *)
(* milliseconds have really gone by since the instant lastCheck was        *)
(* stamped: no evaluation is early, none is missed or put off.  With       *)
(* lastCheck 5000 ms before the wraparound, the timer at 5000 is not due   *)
(* and at 5001 is due.                                                     *)
(***************************************************************************)
C18_WrapSafe ==
    /\ ~evaluationDue(U32Of(5000), U32Sub(U32Of(0), U32Of(5000)))
    /\ evaluationDue(U32Of(5001), U32Sub(U32Of(0), U32Of(5000)))
    /\ [][n' = n + 1 => C18_WrapStep]_vars

\* an evaluation after the wraparound, the one before it stamped before the
\* wraparound
C18_EvaluatedAcrossWrap ==
    /\ evaluated
    /\ evals = 1
    /\ sinceWrap(evalLog[1].now) >= 0
    /\ sinceWrap(evalLog[1].now) < windowSize * sampleInterval
    /\ lastCheck[1] = 0

(***************************************************************************)
(* C19: as long as loop() keeps being called, the timer advancing by at    *)
(* least sampleInterval per call, evaluations keep happening: from every   *)
(* reachable state (with at least windowSize + 2 of the MaxIter calls      *)
(* still to come) a further evaluation follows, with its verdict line      *)
(* written and the LED driven.                                             *)
(***************************************************************************)
C19_EvaluatesAgain ==
    \A e \in 0 .. 2 :
       (evals = e /\ n + windowSize + 2 <= MaxIter)
          ~> (evals = e + 1 /\ evaluated /\ serial # ""
                 /\ led = ledLevel(checkBreathing(samples)))

\* a second evaluation that followed a state with windowSize + 2 calls to go
C19_EvaluatedAgain ==
    /\ evals = 2
    /\ evaluated
    /\ evalLog[1].call + windowSize + 2 <= MaxIter
    /\ Len(serial) > Len("NO HUMAN,400")

=============================================================================
